---- MODULE Spec2Model ----
(***************************************************************************)
(* A model of the multi-source event aggregation engine (EventAggregator). *)
(* One EventAggregator is constructed over a set of providers; a search    *)
(* fans out to the available providers, absorbs their failures, merges,    *)
(* deduplicates and sorts.                                                 *)
(*                                                                         *)
(* Text (title, venue) is a sequence of one-character strings, so that     *)
(* toLowerCase() and trim() are computed and not assumed.  A date string   *)
(* is the record [ok, t]: ok says whether new Date(date) is a valid date,  *)
(* t is its getTime() in milliseconds, counted from a local midnight.      *)
(* A JavaScript number is the record [nan, v].                             *)
(***************************************************************************)
EXTENDS Integers, Sequences, FiniteSets, TLC

VARIABLES
    providers,          \* this.providers: the registry, a sequence of provider names
    config,             \* this.config
    available,          \* provider -> what its isAvailable() returns now
    pc,                 \* position of the searchEvents call
    availableProviders, \* the local of searchEvents: the providers it fans out to
    promises,           \* searchParallel: one slot per available provider
    results,            \* searchSequential: the results pushed so far
    throwers,           \* the providers whose searchEvents throws synchronously in this call
    calls,              \* every provider.searchEvents invocation, in order: [provider, params]
    outcome,            \* provider -> how its call ended
    returned,           \* provider -> the result its call fulfilled with
    outOfOrder,         \* whether some call settled while a call issued before it was pending
    result,             \* what searchEvents fulfilled with
    error,              \* what searchEvents rejected with
    clock,              \* the current local time: what new Date() gives
    filterCalls,        \* the getEventsByTimeframe calls made: [timeframe, today, events, output]
    listed,             \* what the last getAvailableProviders call returned
    other,              \* the locals of a second searchEvents call in progress
    oauth               \* the OAuthManager: its providers, the stored tokens, the time

vars == <<providers, config, available, pc, availableProviders, promises, results,
          throwers, calls, outcome, returned, outOfOrder, result, error,
          clock, filterCalls, listed, other, oauth>>

\* the state no step of a search touches: what getEventsByTimeframe and
\* getAvailableProviders touch, the locals of another call, the OAuthManager
queryVars == <<clock, filterCalls, listed, other, oauth>>

\* the state of a search
searchVars == <<pc, availableProviders, promises, results, throwers, calls, outcome,
                returned, outOfOrder, result, error>>

----------------------------------------------------------------------------
(* Bounds of the model *)

MaxEventsPerProvider == 2
MaxTotalEvents == 3
MaxFiltered == 2
MaxConcurrentEvents == 1

\* the clock of the model starts at midnight of 1 January 2024
\* a time zone: the local days that last 23 hours (the clocks go forward) and
\* those that last 25 hours (the clocks go back), and the wall-clock time from
\* which the day's clock is shifted
UTC == [name |-> "UTC", forward |-> {}, back |-> {}, from |-> 0]

Epoch == [year |-> 2024, month |-> 0, date |-> 1, ms |-> 0, zone |-> UTC]
FirstYear == Epoch.year

----------------------------------------------------------------------------
(* Providers and their descriptors *)

Providers == {"Ticketmaster", "Eventbrite", "Yelp"}

priority(p) ==
    CASE p = "Ticketmaster" -> 100
      [] p = "Eventbrite"   -> 90
      [] p = "Yelp"         -> 70

idPrefix(p) ==
    CASE p = "Ticketmaster" -> "tm"
      [] p = "Eventbrite"   -> "eb"
      [] p = "Yelp"         -> "yelp"

----------------------------------------------------------------------------
(* JavaScript numbers and dates *)

Num(v) == [nan |-> FALSE, v |-> v]
NaN == [nan |-> TRUE, v |-> 0]

NumSub(a, b) == IF a.nan \/ b.nan THEN NaN ELSE Num(a.v - b.v)

MsPerDay == 24 * 60 * 60 * 1000

ValidDate(t) == [ok |-> TRUE, t |-> t]
InvalidDate == [ok |-> FALSE, t |-> 0]

\* new Date(s).getTime()
getTime(d) == IF d.ok THEN Num(d.t) ELSE NaN

\* new Date(s).toDateString(): the local calendar day, or "Invalid Date"
toDateString(d) == IF d.ok THEN <<"day", d.t \div MsPerDay>> ELSE <<"Invalid Date", 0>>

----------------------------------------------------------------------------
(* Local calendar time.  A Date is the record [ok, day, ms]: ok says whether it
   is a valid date, day counts the local calendar days from 1 January of
   FirstYear, ms is the time elapsed since the local midnight of that day, in
   milliseconds.  Months count from 0, as getMonth() does.  The clock is the
   record [year, month, date, ms, zone] of the local fields of new Date(), ms
   being the wall-clock time of day, and of the time zone of the host. *)

isLeapYear(y) == (y % 4 = 0 /\ y % 100 # 0) \/ y % 400 = 0

daysInMonth(y, m) ==
    CASE m = 1 -> IF isLeapYear(y) THEN 29 ELSE 28
      [] m \in {3, 5, 8, 10} -> 30
      [] OTHER -> 31

daysInYear(y) == IF isLeapYear(y) THEN 366 ELSE 365

RECURSIVE daysBeforeYear(_)
daysBeforeYear(y) == IF y <= FirstYear THEN 0 ELSE daysBeforeYear(y - 1) + daysInYear(y - 1)

RECURSIVE daysBeforeMonth(_, _)
daysBeforeMonth(y, m) == IF m = 0 THEN 0 ELSE daysBeforeMonth(y, m - 1) + daysInMonth(y, m - 1)

\* new Date(year, month, date): midnight of that day; a month past December
\* runs into the next year and a date past the end of the month into the next month
newDate(year, month, date) ==
    LET y == year + (month \div 12)
        m == month % 12
    IN [ok |-> TRUE, day |-> daysBeforeYear(y) + daysBeforeMonth(y, m) + (date - 1), ms |-> 0]

HourMs == 60 * 60 * 1000

\* the length of a local day: 23 or 25 hours when the clocks change
dayLength(zone, day) ==
    CASE day \in zone.forward -> MsPerDay - HourMs
      [] day \in zone.back    -> MsPerDay + HourMs
      [] OTHER                -> MsPerDay

\* by how much the local days from..to-1 are longer than 24 hours each
excess(zone, from, to) ==
    HourMs * (Cardinality({ k \in zone.back : from <= k /\ k < to })
                    - Cardinality({ k \in zone.forward : from <= k /\ k < to }))

\* the Date of ms milliseconds after the midnight of day, ms of either sign
RECURSIVE dateAt(_, _, _)
dateAt(zone, day, ms) ==
    IF ms < 0 THEN dateAt(zone, day - 1, ms + dayLength(zone, day - 1))
    ELSE IF ms >= dayLength(zone, day) THEN dateAt(zone, day + 1, ms - dayLength(zone, day))
    ELSE [ok |-> TRUE, day |-> day, ms |-> ms]

\* new Date(d.getTime() + days * 24 * 60 * 60 * 1000 + ms), for days >= 0: the
\* instant that many milliseconds later, whatever the lengths of the days between
plusMs(zone, d, days, ms) ==
    IF d.ok
    THEN dateAt(zone, d.day + days, d.ms + ms - excess(zone, d.day, d.day + days))
    ELSE d

\* the time zones of the host: one without daylight saving time, and two with
\* it, each with the days of 2024 to 2026 on which its clocks change
NewYork ==
    [name |-> "America/New_York",
     forward |-> {newDate(2024, 2, 10).day, newDate(2025, 2, 9).day, newDate(2026, 2, 8).day},
     back |-> {newDate(2024, 10, 3).day, newDate(2025, 10, 2).day},
     from |-> 2 * HourMs]

Berlin ==
    [name |-> "Europe/Berlin",
     forward |-> {newDate(2024, 2, 31).day, newDate(2025, 2, 30).day, newDate(2026, 2, 29).day},
     back |-> {newDate(2024, 9, 27).day, newDate(2025, 9, 26).day},
     from |-> 3 * HourMs]

Zones == {UTC, NewYork, Berlin}

\* a >= b and a <= b and a < b on Dates: comparisons of getTime(), false with NaN
dateGE(a, b) == a.ok /\ b.ok /\ (a.day > b.day \/ (a.day = b.day /\ a.ms >= b.ms))
dateLE(a, b) == a.ok /\ b.ok /\ (a.day < b.day \/ (a.day = b.day /\ a.ms <= b.ms))
dateLT(a, b) == a.ok /\ b.ok /\ (a.day < b.day \/ (a.day = b.day /\ a.ms < b.ms))

\* new Date(now.getFullYear(), now.getMonth(), now.getDate())
todayOf(c) == newDate(c.year, c.month, c.date)

\* new Date(), when the clock shows c: on a day the clocks change, the wall
\* clock is an hour ahead of or behind the time elapsed since midnight
instantOf(c) ==
    LET day == todayOf(c).day IN
    [ok |-> TRUE, day |-> day,
     ms |-> IF c.ms >= c.zone.from THEN c.ms + (dayLength(c.zone, day) - MsPerDay)
            ELSE c.ms]

\* d = new Date(today); d.setMonth(today.getMonth() + months), today being the
\* midnight of the clock's day
setMonth(c, months) == newDate(c.year, c.month + months, c.date)

----------------------------------------------------------------------------
(* Text *)

lowerChar(c) ==
    CASE c = "A" -> "a"
      [] c = "B" -> "b"
      [] c = "F" -> "f"
      [] c = "M" -> "m"
      [] c = "V" -> "v"
      [] OTHER -> c

toLowerCase(s) == [i \in 1..Len(s) |-> lowerChar(s[i])]

RECURSIVE trimStart(_)
trimStart(s) == IF s # <<>> /\ Head(s) = " " THEN trimStart(Tail(s)) ELSE s

RECURSIVE trimEnd(_)
trimEnd(s) ==
    IF s # <<>> /\ s[Len(s)] = " " THEN trimEnd(SubSeq(s, 1, Len(s) - 1)) ELSE s

trim(s) == trimEnd(trimStart(s))

----------------------------------------------------------------------------
(* Array.prototype.sort, as the engine the code runs on (V8) computes it for
   arrays of fewer than 64 elements: the leading run is counted (and reversed
   when strictly descending), then the rest is placed by binary insertion.  A
   comparator result of NaN counts as 0. *)

sortCompare(order) == IF order.nan THEN 0 ELSE order.v

\* comparefn is the comparator as a function on pairs of elements of arr
ArraySort(arr, comparefn) ==
    LET n == Len(arr)
        cmp(x, y) == sortCompare(comparefn[x, y])
        isDescending == cmp(arr[2], arr[1]) < 0
        RECURSIVE runEnd(_)
        runEnd(idx) ==
            IF idx > n THEN n
            ELSE LET order == cmp(arr[idx], arr[idx - 1]) IN
                 IF (isDescending /\ order >= 0) \/ (~isDescending /\ order < 0)
                 THEN idx - 1
                 ELSE runEnd(idx + 1)
        runLength == runEnd(3)
        run == IF isDescending
               THEN [i \in 1..n |-> IF i <= runLength THEN arr[runLength + 1 - i] ELSE arr[i]]
               ELSE arr
        RECURSIVE search(_, _, _, _)
        search(work, pivot, left, right) ==
            IF left < right
            THEN LET mid == left + ((right - left) \div 2) IN
                 IF cmp(pivot, work[mid]) < 0
                 THEN search(work, pivot, left, mid)
                 ELSE search(work, pivot, mid + 1, right)
            ELSE left
        RECURSIVE insertion(_, _)
        insertion(work, start) ==
            IF start > n THEN work
            ELSE LET pivot == work[start]
                     left == search(work, pivot, 1, start)
                     placed == [p \in 1..n |->
                                  IF p < left \/ p > start THEN work[p]
                                  ELSE IF p = left THEN pivot
                                  ELSE work[p - 1]]
                 IN insertion(placed, start + 1)
    IN IF n < 2 THEN arr ELSE insertion(run, runLength + 1)

----------------------------------------------------------------------------
(* EventAggregator: construction *)

\* fault: ascending
comparePriority_ascending(a, b) == Num(priority(a) - priority(b))

\* (a, b) => b.priority - a.priority
comparePriority(a, b) == Num(priority(b) - priority(a))

\* config.providers.sort((a, b) => b.priority - a.priority)
sortProviders(list) ==
    ArraySort(list, [a, b \in { list[i] : i \in 1..Len(list) } |-> comparePriority(a, b)])

\* the defaults of the constructor
defaults ==
    [maxResultsPerProvider |-> 50, enableDeduplication |-> TRUE, parallelRequests |-> TRUE]

\* { maxResultsPerProvider: 50, enableDeduplication: true, parallelRequests: true, ...config }
\* options is a record with the options the caller gives, and no field for the others
mergeConfig(options) ==
    [k \in DOMAIN defaults |-> IF k \in DOMAIN options THEN options[k] ELSE defaults[k]]

----------------------------------------------------------------------------
(* EventAggregator: merging *)

\* results.flatMap(result => result.events)
RECURSIVE flatMapEvents(_)
flatMapEvents(rs) == IF rs = <<>> THEN <<>> ELSE Head(rs).events \o flatMapEvents(Tail(rs))

\* fault: the key is made of the instant instead of the calendar day
generateDeduplicationKey_exactTime(event) ==
    <<trim(toLowerCase(event.title)), getTime(event.date), trim(toLowerCase(event.venue))>>

\* `${title}|${date}|${venue}`
generateDeduplicationKey(event) ==
    <<trim(toLowerCase(event.title)), toDateString(event.date), trim(toLowerCase(event.venue))>>

\* (a, b) => new Date(a.date).getTime() - new Date(b.date).getTime()
compareDate(a, b) == NumSub(getTime(a.date), getTime(b.date))

sortByDate(events) ==
    ArraySort(events, [a, b \in { events[i] : i \in 1..Len(events) } |-> compareDate(a, b)])

\* fault: the key of a kept event is not remembered
firstOfEachKey_forgets(allEvents, seen, deduplicated) == allEvents

\* fault: an event is dropped only when the event just before it has its key
firstOfEachKey_adjacentOnly(allEvents, seen, deduplicated) ==
    LET kept == SelectSeq([i \in 1..Len(allEvents) |-> i],
                    LAMBDA i : i = 1 \/ generateDeduplicationKey(allEvents[i - 1])
                                           # generateDeduplicationKey(allEvents[i]))
    IN [k \in 1..Len(kept) |-> allEvents[kept[k]]]

\* the loop of deduplicateEvents: keep the first event of every key
RECURSIVE firstOfEachKey(_, _, _)
firstOfEachKey(allEvents, seen, deduplicated) ==
    IF allEvents = <<>> THEN deduplicated
    ELSE LET event == Head(allEvents)
             key == generateDeduplicationKey(event)
         IN IF key \notin seen
            THEN firstOfEachKey(Tail(allEvents), seen \cup {key}, Append(deduplicated, event))
            ELSE firstOfEachKey(Tail(allEvents), seen, deduplicated)

deduplicateEvents(rs) == sortByDate(firstOfEachKey(flatMapEvents(rs), {}, <<>>))

\* fault: enableDeduplication is not consulted
aggregate_alwaysDeduplicates(rs, enableDeduplication) == deduplicateEvents(rs)

aggregate(rs, enableDeduplication) ==
    IF enableDeduplication THEN deduplicateEvents(rs) ELSE flatMapEvents(rs)

\* fault: every result has to have more
someHasMore_every(rs) == \A i \in 1..Len(rs) : rs[i].hasMore

\* results.some(result => result.hasMore)
someHasMore(rs) == \E i \in 1..Len(rs) : rs[i].hasMore

\* the value searchEvents returns
aggregatedResult(rs, cfg) ==
    LET aggregatedEvents == aggregate(rs, cfg.enableDeduplication) IN
    [events     |-> aggregatedEvents,
     totalCount |-> Len(aggregatedEvents),
     hasMore    |-> someHasMore(rs),
     source     |-> "aggregated"]

\* the result that stands for a provider whose call failed
failedResult(p) == [events |-> <<>>, totalCount |-> 0, hasMore |-> FALSE, source |-> p]

----------------------------------------------------------------------------
(* The inputs the model draws from *)


\* what a provider may report of an event: (title, date, venue).  The first two
\* differ in letter case, surrounding blanks and time of day only; the third is
\* a day later; the date of the fourth does not parse.
EventPool ==
    { [title |-> <<"A">>,      date |-> ValidDate(0),        venue |-> <<"V">>],
      [title |-> <<" ", "a">>, date |-> ValidDate(HourMs),   venue |-> <<"v", " ">>],
      [title |-> <<"A">>,      date |-> ValidDate(MsPerDay), venue |-> <<"V">>],
      [title |-> <<"B">>,      date |-> InvalidDate,         venue |-> <<"V">>] }

\* the hasMore a provider's searchEvents may fulfil with: EventbriteProvider
\* answers hasMore: false on every path, the others compute it from the page
hasMoreOf(p) == IF p = "Eventbrite" THEN {FALSE} ELSE BOOLEAN

SeqsUpTo(S, n) == UNION { [1..k -> S] : k \in 0..n }

\* the events of provider p, whose ids carry its prefix
eventsOf(p, reported) ==
    [i \in 1..Len(reported) |->
        [id |-> <<idPrefix(p), i>>, title |-> reported[i].title,
         date |-> reported[i].date, venue |-> reported[i].venue]]

\* the lists of distinct providers a caller may pass to the constructor
ProviderLists ==
    { list \in SeqsUpTo(Providers, Cardinality(Providers)) :
        \A i, j \in 1..Len(list) : i # j => list[i] # list[j] }

\* the options a caller may pass to the constructor
ConfigOptions ==
    { [k \in keys |-> FALSE] : keys \in SUBSET {"enableDeduplication", "parallelRequests"} }
    \cup { [maxResultsPerProvider |-> 1, enableDeduplication |-> TRUE,
            parallelRequests |-> TRUE] }

Range(f) == { f[i] : i \in DOMAIN f }

\* the params a caller passes to searchEvents: the facade sets size 100, a
\* direct caller may leave size out
CallerParams == { [radius |-> 25, size |-> 100], [radius |-> 25] }

\* whether a call issued before provider p's is still pending
earlierPending(p) ==
    \E i, j \in 1..Len(availableProviders) :
        /\ availableProviders[j] = p
        /\ i < j
        /\ outcome[availableProviders[i]] = "pending"

TotalReturned == LET RECURSIVE sum(_)
                     sum(S) == IF S = {} THEN 0
                               ELSE LET p == CHOOSE x \in S : TRUE
                                    IN Len(returned[p].events) + sum(S \ {p})
                 IN sum(Providers)

----------------------------------------------------------------------------
(* State machine *)

\* the locals of a searchEvents call that has not begun
notCalled ==
    [pc |-> "idle", availableProviders |-> <<>>, promises |-> <<>>, results |-> <<>>,
     throwers |-> {}, calls |-> <<>>, outcome |-> [p \in Providers |-> "none"],
     returned |-> [p \in Providers |-> failedResult(p)], outOfOrder |-> FALSE,
     result |-> failedResult(""), error |-> ""]

\* new OAuthManager(): no provider, no stored token; now is Date.now()
\* providers is the Map (a set of [key, name]), tokens what localStorage holds (a set
\* of [key, token, lastUpdated]), now is Date.now(), window whether the code runs
\* in a browser (typeof window !== 'undefined'), issued the state strings
\* getAuthUrl has handed out, callbacks the handleCallback calls made, requests
\* the refreshToken and disconnect calls that await their provider
newOAuthManager ==
    [providers |-> {}, tokens |-> {}, now |-> 0, window |-> TRUE, issued |-> {},
     callbacks |-> <<>>, requests |-> <<>>]

pending == [state |-> "pending", value |-> failedResult("")]
fulfilledWith(r) == [state |-> "fulfilled", value |-> r]

Init ==
    \E list \in ProviderLists, options \in ConfigOptions :
        /\ providers = sortProviders(list)
        /\ config = mergeConfig(options)
        /\ available = [p \in Providers |-> TRUE]
        /\ pc = "idle"
        /\ availableProviders = <<>>
        /\ promises = <<>>
        /\ results = <<>>
        /\ throwers = {}
        /\ calls = <<>>
        /\ outcome = [p \in Providers |-> "none"]
        /\ returned = [p \in Providers |-> failedResult(p)]
        /\ outOfOrder = FALSE
        /\ result = failedResult("")
        /\ error = ""
        /\ clock = Epoch
        /\ filterCalls = <<>>
        /\ listed = <<>>
        /\ other = notCalled
        /\ oauth = newOAuthManager

\* a registered provider's isAvailable() changes (a credential appears or goes)
SetAvailable(p) ==
    /\ pc = "idle"
    /\ UNCHANGED queryVars
    /\ p \in Range(providers)
    /\ available' = [available EXCEPT ![p] = ~@]
    /\ UNCHANGED <<providers, config, pc, availableProviders, promises, results, throwers,
                   calls, outcome, returned, outOfOrder, result, error>>

\* { ...params, size: this.config.maxResultsPerProvider }
\* fault: a size the caller gives is kept
searchParams_callerSizeWins(params) ==
    [k \in DOMAIN params \cup {"size"} |->
        IF k \in DOMAIN params THEN params[k] ELSE config.maxResultsPerProvider]

searchParams(params) ==
    [k \in DOMAIN params \cup {"size"} |->
        IF k = "size" THEN config.maxResultsPerProvider ELSE params[k]]

\* fault: the loop does not wait for a call before it issues the next
RECURSIVE sequentialLoop_doesNotAwait(_, _, _, _, _)
sequentialLoop_doesNotAwait(avail, thr, params, i, st) ==
    IF i > Len(avail) THEN st
    ELSE LET p == avail[i]
             called == [st EXCEPT !.calls = Append(@, [provider |-> p, params |-> params])]
         IN IF p \in thr
            THEN sequentialLoop_doesNotAwait(avail, thr, params, i + 1,
                     [called EXCEPT !.results = Append(@, failedResult(p)),
                                    !.outcome[p] = "thrown"])
            ELSE sequentialLoop_doesNotAwait(avail, thr, params, i + 1,
                     [called EXCEPT !.outcome[p] = "pending"])

\* the for loop of searchSequential from provider number i on, up to the first
\* call that does not throw synchronously; st = [results, calls, outcome]
RECURSIVE sequentialLoop(_, _, _, _, _)
sequentialLoop(avail, thr, params, i, st) ==
    IF i > Len(avail) THEN st
    ELSE LET p == avail[i]
             called == [st EXCEPT !.calls = Append(@, [provider |-> p, params |-> params])]
         IN IF p \in thr
            THEN sequentialLoop(avail, thr, params, i + 1,
                     [called EXCEPT !.results = Append(@, failedResult(p)),
                                    !.outcome[p] = "thrown"])
            ELSE [called EXCEPT !.outcome[p] = "pending"]

\* faults of the availability check: it never fires / it fires below two providers
noProviders_never(avail) == FALSE
noProviders_belowTwo(avail) == Len(avail) < 2

\* availableProviders.length === 0
noProviders(avail) == Len(avail) = 0

\* searchEvents(params), up to its first await
SearchEvents(params) ==
    /\ pc = "idle"
    /\ UNCHANGED queryVars
    /\ LET avail == SelectSeq(providers, LAMBDA p : available[p]) IN
       /\ availableProviders' = avail
       /\ IF noProviders(avail)
          THEN /\ pc' = "rejected"
               /\ error' = "No event providers are available"
               /\ UNCHANGED <<promises, results, throwers, calls, outcome>>
          ELSE /\ pc' = "awaiting"
               /\ error' = error
               /\ \E thr \in SUBSET Range(avail) :
                    /\ throwers' = thr
                    /\ IF config.parallelRequests
                       THEN /\ calls' = [i \in 1..Len(avail) |->
                                           [provider |-> avail[i],
                                            params |-> searchParams(params)]]
                            /\ promises' = [i \in 1..Len(avail) |->
                                              IF avail[i] \in thr
                                              THEN fulfilledWith(failedResult(avail[i]))
                                              ELSE pending]
                            /\ outcome' = [p \in Providers |->
                                             IF p \in thr THEN "thrown"
                                             ELSE IF p \in Range(avail) THEN "pending"
                                             ELSE "none"]
                            /\ results' = results
                       ELSE LET st == sequentialLoop(avail, thr, searchParams(params), 1,
                                          [results |-> <<>>, calls |-> <<>>,
                                           outcome |-> outcome])
                            IN /\ calls' = st.calls
                               /\ results' = st.results
                               /\ outcome' = st.outcome
                               /\ promises' = promises
    /\ UNCHANGED <<providers, config, available, returned, outOfOrder, result>>

indexOf(avail, p) == CHOOSE i \in 1..Len(avail) : avail[i] = p

\* fault: the values are collected in the order the calls settle
slotOf_completionOrder(p) ==
    CHOOSE i \in 1..Len(promises) :
        /\ promises[i].state = "pending"
        /\ \A j \in 1..(i - 1) : promises[j].state # "pending"

\* Promise.all keeps the value of every promise at the index of its promise,
\* which is the index of its provider in the list searchParallel was given
slotOf(p) == indexOf(availableProviders, p)

\* the call to provider p settles: r is what the code takes as its result
settle(p, how, r) ==
    /\ outOfOrder' = (outOfOrder \/ earlierPending(p))
    /\ IF config.parallelRequests
       THEN /\ promises' = [promises EXCEPT ![slotOf(p)] = fulfilledWith(r)]
            /\ outcome' = [outcome EXCEPT ![p] = how]
            /\ UNCHANGED <<results, calls>>
       ELSE LET st == sequentialLoop(availableProviders, throwers,
                          calls[1].params,
                          indexOf(availableProviders, p) + 1,
                          [results |-> Append(results, r), calls |-> calls,
                           outcome |-> [outcome EXCEPT ![p] = how]])
            IN /\ results' = st.results
               /\ calls' = st.calls
               /\ outcome' = st.outcome
               /\ UNCHANGED promises

\* provider p's searchEvents fulfils
ProviderFulfils(p, reported, hasMore) ==
    /\ pc = "awaiting"
    /\ UNCHANGED queryVars
    /\ outcome[p] = "pending"
    /\ hasMore \in hasMoreOf(p)
    /\ TotalReturned + Len(reported) <= MaxTotalEvents
    /\ LET r == [events |-> eventsOf(p, reported), totalCount |-> Len(reported),
                 hasMore |-> hasMore, source |-> p]
       IN /\ returned' = [returned EXCEPT ![p] = r]
          /\ settle(p, "fulfilled", r)
    /\ UNCHANGED <<providers, config, available, pc, availableProviders, throwers,
                   result, error>>

\* fault: no catch block, the rejection ends the whole search
ProviderRejects_propagates(p) ==
    /\ pc = "awaiting"
    /\ UNCHANGED queryVars
    /\ outcome[p] = "pending"
    /\ pc' = "rejected"
    /\ error' = "provider failed"
    /\ outcome' = [outcome EXCEPT ![p] = "rejected"]
    /\ UNCHANGED <<providers, config, available, availableProviders, promises, results,
                   throwers, calls, returned, outOfOrder, result>>

\* provider p's searchEvents rejects: the catch block stands in an empty result
ProviderRejects(p) ==
    /\ pc = "awaiting"
    /\ UNCHANGED queryVars
    /\ outcome[p] = "pending"
    /\ settle(p, "rejected", failedResult(p))
    /\ UNCHANGED <<providers, config, available, pc, availableProviders, throwers,
                   returned, result, error>>

\* fault: searchSequential puts each result in front of the earlier ones
collected_sequentialUnshifts ==
    IF config.parallelRequests
    THEN [i \in 1..Len(promises) |-> promises[i].value]
    ELSE [i \in 1..Len(results) |-> results[Len(results) + 1 - i]]

\* the results searchParallel / searchSequential hand back, once every call has settled
collected ==
    IF config.parallelRequests
    THEN [i \in 1..Len(promises) |-> promises[i].value]
    ELSE results

\* fault: the search goes on as soon as one call has given a result
allSettled_firstResult ==
    IF config.parallelRequests
    THEN \E i \in 1..Len(promises) : promises[i].state = "fulfilled"
    ELSE Len(results) >= 1

\* fault: the search goes on only when no call has failed
allSettled_withoutFailure ==
    /\ \A p \in Providers : outcome[p] \notin {"rejected", "thrown"}
    /\ IF config.parallelRequests
       THEN \A i \in 1..Len(promises) : promises[i].state = "fulfilled"
       ELSE Len(results) = Len(availableProviders)

allSettled ==
    IF config.parallelRequests
    THEN \A i \in 1..Len(promises) : promises[i].state = "fulfilled"
    ELSE Len(results) = Len(availableProviders)

\* searchEvents after its await: aggregate and return
Completes ==
    /\ pc = "awaiting"
    /\ UNCHANGED queryVars
    /\ allSettled
    /\ result' = aggregatedResult(collected, config)
    /\ pc' = "fulfilled"
    /\ UNCHANGED <<providers, config, available, availableProviders, promises, results,
                   throwers, calls, outcome, returned, outOfOrder, error>>

----------------------------------------------------------------------------
(* deduplicateEvents as a function of its own: it is given one list of events,
   as one provider's result, and then its own output. *)

DedupPool ==
    { [title |-> title, date |-> date, venue |-> <<"V">>] :
        title \in {<<"A">>, <<" ", "a">>, <<"B">>},
        date \in {ValidDate(0), ValidDate(HourMs), ValidDate(MsPerDay),
                  ValidDate(2 * MsPerDay), InvalidDate} }

asResult(events) ==
    [events |-> events, totalCount |-> Len(events), hasMore |-> FALSE, source |-> "Ticketmaster"]

InitDedup ==
    \E reported \in SeqsUpTo(DedupPool, MaxTotalEvents) :
        /\ providers = <<"Ticketmaster">>
        /\ config = mergeConfig(<<>>)
        /\ available = [p \in Providers |-> TRUE]
        /\ pc = "given"
        /\ availableProviders = <<>>
        /\ promises = <<>>
        /\ results = <<>>
        /\ throwers = {}
        /\ calls = <<>>
        /\ outcome = [p \in Providers |-> "none"]
        /\ returned = [p \in Providers |->
                          IF p = "Ticketmaster"
                          THEN asResult(eventsOf(p, reported))
                          ELSE failedResult(p)]
        /\ outOfOrder = FALSE
        /\ result = failedResult("")
        /\ error = ""
        /\ clock = Epoch
        /\ filterCalls = <<>>
        /\ listed = <<>>
        /\ other = notCalled
        /\ oauth = newOAuthManager

\* deduplicateEvents(results) on the given list
Deduplicates ==
    /\ pc = "given"
    /\ UNCHANGED queryVars
    /\ results' = <<asResult(deduplicateEvents(<<returned["Ticketmaster"]>>))>>
    /\ pc' = "deduplicated"
    /\ UNCHANGED <<providers, config, available, availableProviders, promises, throwers,
                   calls, outcome, returned, outOfOrder, result, error>>

\* deduplicateEvents(results) on the list the first application returned
DeduplicatesAgain ==
    /\ pc = "deduplicated"
    /\ UNCHANGED queryVars
    /\ result' = asResult(deduplicateEvents(results))
    /\ pc' = "deduplicated again"
    /\ UNCHANGED <<providers, config, available, availableProviders, promises, results,
                   throwers, calls, outcome, returned, outOfOrder, error>>

NextDedup == Deduplicates \/ DeduplicatesAgain

\* deduplicateEvents on two events that may differ in title, venue and date;
\* their ids differ always
KeyPool ==
    { [title |-> title, date |-> date, venue |-> venue] :
        title \in {<<"A">>, <<" ", "a">>, <<"B">>},
        date \in {ValidDate(0), ValidDate(HourMs), ValidDate(MsPerDay), InvalidDate},
        venue \in {<<"V">>, <<"v", " ">>, <<"B">>} }

InitKeys ==
    \E reported \in [1..2 -> KeyPool] :
        /\ providers = <<"Ticketmaster">>
        /\ config = mergeConfig(<<>>)
        /\ available = [p \in Providers |-> TRUE]
        /\ pc = "given"
        /\ availableProviders = <<>>
        /\ promises = <<>>
        /\ results = <<>>
        /\ throwers = {}
        /\ calls = <<>>
        /\ outcome = [p \in Providers |-> "none"]
        /\ returned = [p \in Providers |->
                          IF p = "Ticketmaster"
                          THEN asResult(eventsOf(p, reported))
                          ELSE failedResult(p)]
        /\ outOfOrder = FALSE
        /\ result = failedResult("")
        /\ error = ""
        /\ clock = Epoch
        /\ filterCalls = <<>>
        /\ listed = <<>>
        /\ other = notCalled
        /\ oauth = newOAuthManager

NextKeys == Deduplicates

SpecKeys == InitKeys /\ [][NextKeys]_vars

SpecDedup == InitDedup /\ [][NextDedup]_vars

----------------------------------------------------------------------------
(* EventAggregator: getEventsByTimeframe and getAvailableProviders *)

\* 'today' with the end of the day included
inToday_inclusive(eventDate, c) ==
    dateGE(eventDate, todayOf(c)) /\ dateLE(eventDate, plusMs(c.zone, todayOf(c), 1, 0))

\* case 'today'
inToday(eventDate, c) ==
    dateGE(eventDate, todayOf(c)) /\ dateLT(eventDate, plusMs(c.zone, todayOf(c), 1, 0))

\* 'week' with the end of the seventh day left out
inWeek_exclusive(eventDate, c) ==
    LET weekFromNow == plusMs(c.zone, todayOf(c), 7, 0)
    IN dateGE(eventDate, todayOf(c)) /\ dateLT(eventDate, weekFromNow)

\* 'week' counted from the current instant instead of from midnight
inWeek_fromNow(eventDate, c) ==
    LET weekFromNow == plusMs(c.zone, todayOf(c), 7, 0)
    IN dateGE(eventDate, instantOf(c)) /\ dateLE(eventDate, weekFromNow)

\* case 'week'
inWeek(eventDate, c) ==
    LET weekFromNow == plusMs(c.zone, todayOf(c), 7, 0)
    IN dateGE(eventDate, todayOf(c)) /\ dateLE(eventDate, weekFromNow)

\* 'month' without its lower bound
inMonth_noLowerBound(eventDate, c) ==
    LET monthFromNow == setMonth(c, 1)
    IN dateLE(eventDate, monthFromNow)

\* case 'month'
inMonth(eventDate, c) ==
    LET monthFromNow == setMonth(c, 1)
    IN dateGE(eventDate, todayOf(c)) /\ dateLE(eventDate, monthFromNow)

\* '3months' with setMonth(3): the month of April instead of three months on
inThreeMonths_absoluteMonth(eventDate, c) ==
    LET threeMonthsFromNow == newDate(c.year, 3, c.date)
    IN dateGE(eventDate, todayOf(c)) /\ dateLE(eventDate, threeMonthsFromNow)

\* case '3months'
inThreeMonths(eventDate, c) ==
    LET threeMonthsFromNow == setMonth(c, 3)
    IN dateGE(eventDate, todayOf(c)) /\ dateLE(eventDate, threeMonthsFromNow)

\* the callback with a default branch that keeps nothing
keeps_defaultDropsAll(eventDate, c, timeframe) ==
    CASE timeframe = "today"   -> inToday(eventDate, c)
      [] timeframe = "week"    -> inWeek(eventDate, c)
      [] timeframe = "month"   -> inMonth(eventDate, c)
      [] timeframe = "3months" -> inThreeMonths(eventDate, c)
      [] OTHER -> FALSE

\* the callback of events.filter, at clock c
keeps(eventDate, c, timeframe) ==
    CASE timeframe = "today"   -> inToday(eventDate, c)
      [] timeframe = "week"    -> inWeek(eventDate, c)
      [] timeframe = "month"   -> inMonth(eventDate, c)
      [] timeframe = "3months" -> inThreeMonths(eventDate, c)
      [] OTHER -> TRUE

getEventsByTimeframe(events, timeframe) ==
    SelectSeq(events, LAMBDA event : keeps(event.date, clock, timeframe))

\* fault: the registry is listed whole
getAvailableProviders_unfiltered == providers

\* the providers' names are the model's providers themselves
getAvailableProviders == SelectSeq(providers, LAMBDA p : available[p])

----------------------------------------------------------------------------
(* getEventsByTimeframe on the events of a search result, at a time of the
   caller's choosing, and then on its own output *)

HalfDayMs == 12 * HourMs

\* the instants of a call: midnight and noon of the first day, of the 28th and
\* of the days after the 29th of every month of a leap year, and of its 29
\* February, and of the January, the February and the
\* December of the year after it, and of the days the clocks of the zone
\* change; in a zone with daylight saving time, those of these days from which
\* the week ahead holds a change of the clocks (on the others the zone does as
\* UTC does)
Clocks ==
    { c \in [year : {FirstYear, FirstYear + 1}, month : 0..11, date : 1..31,
             ms : {0, HalfDayMs}, zone : Zones] :
        LET day == newDate(c.year, c.month, c.date).day
            changes == c.zone.forward \cup c.zone.back
        IN  /\ c.date <= daysInMonth(c.year, c.month)
            /\ c.year = FirstYear \/ c.month \in {0, 1, 11}
            /\ c.date \in {1, 28, 30, 31} \/ (c.date = 29 /\ c.month = 1) \/ day \in changes
            /\ c.zone = UTC \/ \E t \in changes : day <= t /\ t <= day + 7 }

\* the dates of the events: as the tests take them, the current instant and 1,
\* 7 and 30 days after it; 90 days after it; the last millisecond of
\* yesterday; the instant 7 x 24 hours after today's midnight and the
\* millisecond after it; the local midnights of tomorrow and of the day a
\* week on; a date that does not parse
DatesAt(c) ==
    LET instant == instantOf(c) IN
    { instant, plusMs(c.zone, instant, 1, 0), plusMs(c.zone, instant, 7, 0),
      plusMs(c.zone, instant, 30, 0), plusMs(c.zone, instant, 90, 0),
      plusMs(c.zone, todayOf(c), 0, -1),
      plusMs(c.zone, todayOf(c), 7, 0), plusMs(c.zone, todayOf(c), 7, 1),
      newDate(c.year, c.month, c.date + 1), newDate(c.year, c.month, c.date + 7),
      [ok |-> FALSE, day |-> 0, ms |-> 0] }

Timeframes == {"today", "week", "month", "3months", "unknown", ""}

InitTimeframe ==
    \E c \in Clocks :
        \E dates \in SeqsUpTo(DatesAt(c), MaxFiltered) :
            /\ clock = c
            /\ result = [events |-> [i \in 1..Len(dates) |->
                                        [id |-> <<"tm", i>>, title |-> <<"A">>,
                                         date |-> dates[i], venue |-> <<"V">>]],
                         totalCount |-> Len(dates), hasMore |-> FALSE,
                         source |-> "aggregated"]
            /\ pc = "fulfilled"
            /\ providers = <<"Ticketmaster">>
            /\ config = mergeConfig(<<>>)
            /\ available = [p \in Providers |-> TRUE]
            /\ availableProviders = <<>>
            /\ promises = <<>>
            /\ results = <<>>
            /\ throwers = {}
            /\ calls = <<>>
            /\ outcome = [p \in Providers |-> "none"]
            /\ returned = [p \in Providers |-> failedResult(p)]
            /\ outOfOrder = FALSE
            /\ error = ""
            /\ filterCalls = <<>>
            /\ listed = <<>>
            /\ other = notCalled
            /\ oauth = newOAuthManager

filterCall(events, timeframe) ==
    [timeframe |-> timeframe, at |-> clock, events |-> events,
     output |-> getEventsByTimeframe(events, timeframe)]

\* getEventsByTimeframe(result.events, timeframe)
FiltersResult(timeframe) ==
    /\ pc = "fulfilled"
    /\ filterCalls = <<>>
    /\ filterCalls' = <<filterCall(result.events, timeframe)>>
    /\ UNCHANGED <<providers, config, available, searchVars, clock, listed, other, oauth>>

\* getEventsByTimeframe on what the first call returned, with its timeframe
FiltersAgain ==
    /\ Len(filterCalls) = 1
    /\ filterCalls' = Append(filterCalls,
                             filterCall(filterCalls[1].output, filterCalls[1].timeframe))
    /\ UNCHANGED <<providers, config, available, searchVars, clock, listed, other, oauth>>

\* half a day passes between the two calls: into the afternoon, or into the
\* next day
sameDay(a, b) == a.year = b.year /\ a.month = b.month /\ a.date = b.date

nextDay(c) ==
    IF c.date < daysInMonth(c.year, c.month) THEN [c EXCEPT !.date = @ + 1, !.ms = 0]
    ELSE IF c.month < 11 THEN [c EXCEPT !.month = @ + 1, !.date = 1, !.ms = 0]
    ELSE [c EXCEPT !.year = @ + 1, !.month = 0, !.date = 1, !.ms = 0]

Tick ==
    /\ Len(filterCalls) = 1
    /\ clock = filterCalls[1].at
    /\ clock' = IF clock.ms + HalfDayMs < MsPerDay
                THEN [clock EXCEPT !.ms = @ + HalfDayMs]
                ELSE nextDay(clock)
    /\ UNCHANGED <<providers, config, available, searchVars, filterCalls, listed, other,
                   oauth>>

NextTimeframe ==
    \/ \E timeframe \in Timeframes : FiltersResult(timeframe)
    \/ FiltersAgain
    \/ Tick

SpecTimeframe == InitTimeframe /\ [][NextTimeframe]_vars

----------------------------------------------------------------------------
(* Two searchEvents calls on one aggregator, the second begun while the first
   is in progress.  Each call has its own locals; the steps above are the steps
   of the call that runs, and the scheduler switches between the calls at
   their awaits. *)

\* the locals of the call that runs
thisSearch ==
    [pc |-> pc, availableProviders |-> availableProviders, promises |-> promises,
     results |-> results, throwers |-> throwers, calls |-> calls, outcome |-> outcome,
     returned |-> returned, outOfOrder |-> outOfOrder, result |-> result, error |-> error]

\* fault: results is a field of the aggregator, one array for every call
Switch_sharedResults ==
    /\ other.pc = "idle" => pc = "awaiting"
    /\ other.pc = "idle" \/ pc # "idle"
    /\ other' = thisSearch
    /\ pc' = other.pc
    /\ availableProviders' = other.availableProviders
    /\ promises' = other.promises
    /\ results' = results
    /\ throwers' = other.throwers
    /\ calls' = other.calls
    /\ outcome' = other.outcome
    /\ returned' = other.returned
    /\ outOfOrder' = other.outOfOrder
    /\ result' = other.result
    /\ error' = other.error
    /\ UNCHANGED <<providers, config, available, clock, filterCalls, listed, oauth>>

\* the other call runs next; a call that has not begun is switched to only
\* while the first is awaiting its providers
Switch ==
    /\ other.pc = "idle" => pc = "awaiting"
    /\ other.pc = "idle" \/ pc # "idle"
    /\ other' = thisSearch
    /\ pc' = other.pc
    /\ availableProviders' = other.availableProviders
    /\ promises' = other.promises
    /\ results' = other.results
    /\ throwers' = other.throwers
    /\ calls' = other.calls
    /\ outcome' = other.outcome
    /\ returned' = other.returned
    /\ outOfOrder' = other.outOfOrder
    /\ result' = other.result
    /\ error' = other.error
    /\ UNCHANGED <<providers, config, available, clock, filterCalls, listed, oauth>>

\* what the providers report in these searches: events of one key at
\* different times of the day
ConcurrentPool == { e \in EventPool : e.date.ok /\ e.date.t < MsPerDay }

\* an aggregator over Ticketmaster and Eventbrite, given in either order
InitConcurrent ==
    /\ Init
    /\ Range(providers) = {"Ticketmaster", "Eventbrite"}
    /\ config.maxResultsPerProvider = defaults.maxResultsPerProvider

NextConcurrent ==
    \/ \E params \in CallerParams : SearchEvents(params)
    \/ \E p \in Providers, reported \in SeqsUpTo(ConcurrentPool, MaxConcurrentEvents),
          hasMore \in BOOLEAN : ProviderFulfils(p, reported, hasMore)
    \/ \E p \in Providers : ProviderRejects(p)
    \/ Completes
    \/ Switch

SpecConcurrent == InitConcurrent /\ [][NextConcurrent]_vars

----------------------------------------------------------------------------
(* getAvailableProviders on an aggregator as constructed, while the providers'
   availability changes *)

\* getAvailableProviders(): the call is recorded with the availability it met
GetAvailableProviders ==
    /\ pc = "idle"
    /\ listed' = <<[available |-> available, names |-> getAvailableProviders]>>
    /\ UNCHANGED <<providers, config, available, searchVars, clock, filterCalls, other,
                   oauth>>

NextProviders ==
    \/ \E p \in Providers : SetAvailable(p)
    \/ GetAvailableProviders

SpecProviders == Init /\ [][NextProviders]_vars

(***************************************************************************)
(* OAuthManager: the registry, the state parameter, the stored tokens       *)
(*                                                                         *)
(* A provider name is text (a sequence of one-character strings).  A state *)
(* string is [base64, text]: base64 says whether atob() accepts it, text is *)
(* what it decodes to, [parses, value]: parses says whether JSON.parse()    *)
(* accepts it and value is the parsed value, an OAuthState object or null.  *)
(* A number that may be undefined is NaN when it is: where the code reads   *)
(* it, undefined is false as a condition and NaN in arithmetic, as NaN is.  *)
(***************************************************************************)

Meetup == <<"M", "e", "e", "t", "u", "p">>

\* the OAuth providers the callback route registers
OAuthProviders == {Meetup}

\* the names callers pass: the provider's own name and the lower-case route name
OAuthCallerNames == {Meetup, toLowerCase(Meetup)}

StateMaxAgeMs == 10 * 60 * 1000

\* the text as one string
RECURSIVE join(_)
join(text) == IF text = <<>> THEN "" ELSE text[1] \o join(Tail(text))

registerProvider(o, name) ==
    [o EXCEPT !.providers = {q \in @ : q.key # toLowerCase(name)}
                                \cup {[key |-> toLowerCase(name), name |-> name]}]

\* getProvider(name) is not undefined
hasProvider(o, name) == \E q \in o.providers : q.key = toLowerCase(name)

JSONstringify(v) == [parses |-> TRUE, value |-> v]
btoa(text) == [base64 |-> TRUE, text |-> text]

generateState(providerName, redirectPath, now, nonce) ==
    btoa(JSONstringify([isObject |-> TRUE, provider |-> providerName,
                        redirectPath |-> redirectPath, timestamp |-> Num(now),
                        nonce |-> nonce]))

\* a > b of two JavaScript numbers: false when either is NaN
greaterThan(a, b) == ~a.nan /\ ~b.nan /\ a.v > b.v

\* [valid, data]: valid is FALSE where the code returns null
validateState(state, now) ==
    LET data == state.text.value IN
    IF ~state.base64 THEN [valid |-> FALSE, data |-> data]
    ELSE IF ~state.text.parses THEN [valid |-> FALSE, data |-> data]
    ELSE IF ~data.isObject THEN [valid |-> FALSE, data |-> data]
    ELSE IF greaterThan(NumSub(Num(now), data.timestamp), Num(StateMaxAgeMs))
         THEN [valid |-> FALSE, data |-> data]
    ELSE [valid |-> TRUE, data |-> data]

noToken == [accessToken |-> "", refreshToken |-> "", expiresAt |-> NaN]

\* what a request to a token endpoint comes to: the request fails (reached
\* FALSE), the endpoint refuses (ok FALSE, with a text), or it answers with the
\* fields of a token, of which refresh_token and expires_in may be missing
fetchFailed ==
    [reached |-> FALSE, ok |-> FALSE, text |-> "", access_token |-> "",
     refresh_token |-> "", expires_in |-> 0]
refusal(text) == [fetchFailed EXCEPT !.reached = TRUE, !.text = text]
grant(access, refresh, expiresIn) ==
    [reached |-> TRUE, ok |-> TRUE, text |-> "", access_token |-> access,
     refresh_token |-> refresh, expires_in |-> expiresIn]

\* data.expires_in ? Date.now() + (data.expires_in * 1000) : undefined
expiresAtOf(answer, now) ==
    IF answer.expires_in # 0 THEN Num(now + answer.expires_in * 1000) ELSE NaN

\* MeetupOAuthProvider.exchangeCodeForToken, given what the request came to
exchangeCodeForToken(answer, now) ==
    IF ~answer.reached THEN [threw |-> TRUE, message |-> "fetch failed", token |-> noToken]
    ELSE IF ~answer.ok
    THEN [threw |-> TRUE, message |-> "Token exchange failed: " \o answer.text,
          token |-> noToken]
    ELSE [threw |-> FALSE, message |-> "",
          token |-> [accessToken |-> answer.access_token,
                     refreshToken |-> answer.refresh_token,
                     expiresAt |-> expiresAtOf(answer, now)]]

\* MeetupOAuthProvider.refreshToken
refreshTokenOf(refreshToken, answer, now) ==
    IF ~answer.reached THEN [threw |-> TRUE, message |-> "fetch failed", token |-> noToken]
    ELSE IF ~answer.ok
    THEN [threw |-> TRUE, message |-> "Token refresh failed: " \o answer.text,
          token |-> noToken]
    ELSE [threw |-> FALSE, message |-> "",
          token |-> [accessToken |-> answer.access_token,
                     refreshToken |-> IF answer.refresh_token # ""
                                      THEN answer.refresh_token ELSE refreshToken,
                     expiresAt |-> expiresAtOf(answer, now)]]

\* MeetupOAuthProvider.validateToken
validateToken(token, now) ==
    IF token.accessToken = "" THEN FALSE
    ELSE IF ~token.expiresAt.nan /\ token.expiresAt.v # 0 /\ now > token.expiresAt.v
    THEN FALSE
    ELSE TRUE

\* without a window there is no localStorage: nothing is read and nothing written
getStoredTokens(o) == IF o.window THEN o.tokens ELSE {}

storeToken(o, providerName, token) ==
    IF o.window
    THEN {t \in getStoredTokens(o) : t.key # toLowerCase(providerName)}
            \cup {[key |-> toLowerCase(providerName), token |-> token,
                   lastUpdated |-> o.now]}
    ELSE o.tokens

removeToken(o, providerName) ==
    IF o.window
    THEN {t \in getStoredTokens(o) : t.key # toLowerCase(providerName)}
    ELSE o.tokens

\* [found, token, tokens]: found is FALSE where the code returns null; tokens
\* are the stored tokens afterwards
getToken(o, providerName) ==
    LET stored == {t \in getStoredTokens(o) : t.key = toLowerCase(providerName)} IN
    IF stored = {}
    THEN [found |-> FALSE, token |-> noToken, tokens |-> o.tokens]
    ELSE LET providerData == CHOOSE t \in stored : TRUE IN
         IF ~hasProvider(o, providerName) \/ ~validateToken(providerData.token, o.now)
         THEN [found |-> FALSE, token |-> noToken, tokens |-> removeToken(o, providerName)]
         ELSE [found |-> TRUE, token |-> providerData.token, tokens |-> o.tokens]

\* the stored tokens after getProviderStatuses: getToken of every provider
getProviderStatuses(o) ==
    {t \in o.tokens : \A q \in o.providers : t \in getToken(o, q.name).tokens}

failure(message) == [success |-> FALSE, redirectPath |-> "", error |-> message]
awaited == [success |-> FALSE, redirectPath |-> "", error |-> ""]

\* handleCallback up to its await: [settled, response], settled where it has
\* returned without calling the provider
handleCallback(o, providerName, state) ==
    LET stateData == validateState(state, o.now) IN
    IF ~hasProvider(o, providerName)
    THEN [settled |-> TRUE,
          response |-> failure("Provider '" \o join(providerName) \o "' not found")]
    ELSE IF ~stateData.valid \/ stateData.data.provider # providerName
    THEN [settled |-> TRUE, response |-> failure("Invalid state parameter")]
    ELSE [settled |-> FALSE, response |-> awaited]

\* handleCallback from its await on: [response, stored, tokens], stored where
\* it has called storeToken
handleCallbackResumes(o, call, answer) ==
    LET exchanged == exchangeCodeForToken(answer, o.now)
        redirectPath == call.state.text.value.redirectPath
    IN  IF exchanged.threw
        THEN [response |-> failure(exchanged.message), stored |-> FALSE,
              tokens |-> o.tokens]
        ELSE [response |-> [success |-> TRUE,
                            redirectPath |-> IF redirectPath = "" THEN "/events"
                                             ELSE redirectPath,
                            error |-> ""],
              stored |-> TRUE,
              tokens |-> storeToken(o, call.providerName, exchanged.token)]

MaxIssued == 1
MaxCallbacks == 2
MaxRequests == 1

Nonces == {"k3x9"}
Codes == {"granted", "denied"}

\* what the token endpoint makes of a code
ExchangeAnswers(code) ==
    IF code = "granted"
    THEN {grant("token", "refresh", 60), grant("token", "", 0), fetchFailed}
    ELSE {refusal("invalid_grant"), fetchFailed}

\* what the refresh endpoint makes of a refresh token
RefreshAnswers == {grant("token2", "", 0), refusal("invalid_grant")}

noState ==
    [isObject |-> FALSE, provider |-> <<>>, redirectPath |-> "", timestamp |-> NaN,
     nonce |-> ""]

\* state strings that no getAuthUrl produced: not base64, not JSON, the JSON null,
\* and an object that names the provider but carries no timestamp
ForgedStates(providerName) ==
    { [base64 |-> FALSE, text |-> [parses |-> FALSE, value |-> noState]],
      btoa([parses |-> FALSE, value |-> noState]),
      btoa(JSONstringify(noState)),
      btoa(JSONstringify([noState EXCEPT !.isObject = TRUE, !.provider = providerName])) }

\* the aggregator stands by: the OAuthManager is a separate object, in a
\* browser or on the server
InitOAuth ==
    /\ oauth \in {[newOAuthManager EXCEPT !.window = w] : w \in BOOLEAN}
    /\ providers = <<>>
    /\ config = defaults
    /\ available = [p \in Providers |-> TRUE]
    /\ pc = "idle"
    /\ availableProviders = <<>>
    /\ promises = <<>>
    /\ results = <<>>
    /\ throwers = {}
    /\ calls = <<>>
    /\ outcome = [p \in Providers |-> "none"]
    /\ returned = [p \in Providers |-> failedResult(p)]
    /\ outOfOrder = FALSE
    /\ result = failedResult("")
    /\ error = ""
    /\ clock = Epoch
    /\ filterCalls = <<>>
    /\ listed = <<>>
    /\ other = notCalled

aggregatorVars ==
    <<providers, config, available, searchVars, clock, filterCalls, listed, other>>

RegisterProvider(name) ==
    /\ oauth' = registerProvider(oauth, name)
    /\ UNCHANGED aggregatorVars

\* getAuthUrl throws for an unregistered provider and hands out nothing
GetAuthUrl(providerName, nonce) ==
    /\ hasProvider(oauth, providerName)
    /\ Cardinality(oauth.issued) < MaxIssued
    /\ oauth' = [oauth EXCEPT !.issued =
                    @ \cup {generateState(providerName, "/events", oauth.now, nonce)}]
    /\ UNCHANGED aggregatorVars

\* handleCallback is called and runs to its await, or to its return
HandleCallback(providerName, code, state) ==
    LET begun == handleCallback(oauth, providerName, state) IN
    /\ Len(oauth.callbacks) < MaxCallbacks
    /\ oauth' = [oauth EXCEPT !.callbacks =
                    Append(@, [providerName |-> providerName, code |-> code,
                               state |-> state, at |-> oauth.now,
                               registered |-> hasProvider(oauth, providerName),
                               pc |-> IF begun.settled THEN "settled" ELSE "awaiting",
                               exchange |-> "none", stored |-> FALSE,
                               changed |-> FALSE, response |-> begun.response])]
    /\ UNCHANGED aggregatorVars

exchangeOutcome(answer) ==
    IF ~answer.reached THEN "failed" ELSE IF ~answer.ok THEN "refused" ELSE "token"

\* the token endpoint answers the call i, which resumes and returns
ExchangeSettles(i, answer) ==
    /\ i \in DOMAIN oauth.callbacks
    /\ oauth.callbacks[i].pc = "awaiting"
    /\ LET done == handleCallbackResumes(oauth, oauth.callbacks[i], answer) IN
       oauth' = [oauth EXCEPT
                    !.tokens = done.tokens,
                    !.callbacks[i] = [@ EXCEPT !.pc = "settled",
                                               !.exchange = exchangeOutcome(answer),
                                               !.stored = done.stored,
                                               !.changed = done.tokens # oauth.tokens,
                                               !.response = done.response]]
    /\ UNCHANGED aggregatorVars

GetToken(providerName) ==
    /\ oauth' = [oauth EXCEPT !.tokens = getToken(oauth, providerName).tokens]
    /\ UNCHANGED aggregatorVars

\* isConnected is getToken, answered as a boolean
IsConnected(providerName) == GetToken(providerName)

GetProviderStatuses ==
    /\ oauth' = [oauth EXCEPT !.tokens = getProviderStatuses(oauth)]
    /\ UNCHANGED aggregatorVars

\* refreshToken is called and runs to its await, or returns false
RefreshToken(providerName) ==
    LET currentToken == getToken(oauth, providerName) IN
    /\ Len(oauth.requests) < MaxRequests
    /\ oauth' = [oauth EXCEPT
                    !.tokens = currentToken.tokens,
                    !.requests =
                        IF hasProvider(oauth, providerName) /\ currentToken.found
                              /\ currentToken.token.refreshToken # ""
                        THEN Append(@, [kind |-> "refresh", providerName |-> providerName,
                                        refreshToken |-> currentToken.token.refreshToken])
                        ELSE @]
    /\ UNCHANGED aggregatorVars

without(s, i) == [j \in 1..(Len(s) - 1) |-> IF j < i THEN s[j] ELSE s[j + 1]]

\* the refresh endpoint answers: the new token is stored, or the call returns false
RefreshSettles(i, answer) ==
    /\ i \in DOMAIN oauth.requests
    /\ oauth.requests[i].kind = "refresh"
    /\ LET newToken == refreshTokenOf(oauth.requests[i].refreshToken, answer, oauth.now) IN
       oauth' = [oauth EXCEPT
                    !.tokens = IF newToken.threw THEN @
                               ELSE storeToken(oauth, oauth.requests[i].providerName,
                                               newToken.token),
                    !.requests = without(@, i)]
    /\ UNCHANGED aggregatorVars

\* disconnect is called: it awaits the revocation of a token it has found, and
\* removes the token at once when it has found none
Disconnect(providerName) ==
    LET token == getToken(oauth, providerName)
        read == [oauth EXCEPT !.tokens = token.tokens]
    IN  /\ Len(oauth.requests) < MaxRequests
        /\ oauth' = IF hasProvider(oauth, providerName) /\ token.found
                    THEN [read EXCEPT !.requests =
                            Append(@, [kind |-> "revoke", providerName |-> providerName,
                                       refreshToken |-> ""])]
                    ELSE [read EXCEPT !.tokens = removeToken(read, providerName)]
        /\ UNCHANGED aggregatorVars

\* revokeToken has returned (it absorbs its own failures): the token is removed
DisconnectSettles(i) ==
    /\ i \in DOMAIN oauth.requests
    /\ oauth.requests[i].kind = "revoke"
    /\ oauth' = [oauth EXCEPT
                    !.tokens = removeToken(oauth, oauth.requests[i].providerName),
                    !.requests = without(@, i)]
    /\ UNCHANGED aggregatorVars

\* Date.now() advances while a flow is under way: by ten minutes, then by one
\* millisecond more
TimePasses ==
    /\ oauth.issued # {}
    /\ oauth.now <= StateMaxAgeMs
    /\ oauth' = [oauth EXCEPT !.now = IF @ = 0 THEN StateMaxAgeMs ELSE @ + 1]
    /\ UNCHANGED aggregatorVars

NextOAuth ==
    \/ \E name \in OAuthProviders : RegisterProvider(name)
    \/ \E providerName \in OAuthCallerNames, nonce \in Nonces :
          GetAuthUrl(providerName, nonce)
    \/ \E providerName \in OAuthCallerNames, code \in Codes :
          \E state \in oauth.issued \cup ForgedStates(providerName) :
              HandleCallback(providerName, code, state)
    \/ \E i \in 1..MaxCallbacks :
          /\ i \in DOMAIN oauth.callbacks
          /\ \E answer \in ExchangeAnswers(oauth.callbacks[i].code) :
                ExchangeSettles(i, answer)
    \/ \E providerName \in OAuthCallerNames : GetToken(providerName)
    \/ \E providerName \in OAuthCallerNames : IsConnected(providerName)
    \/ GetProviderStatuses
    \/ \E providerName \in OAuthCallerNames : RefreshToken(providerName)
    \/ \E i \in 1..MaxRequests, answer \in RefreshAnswers : RefreshSettles(i, answer)
    \/ \E providerName \in OAuthCallerNames : Disconnect(providerName)
    \/ \E i \in 1..MaxRequests : DisconnectSettles(i)
    \/ TimePasses

SpecOAuth == InitOAuth /\ [][NextOAuth]_vars

Next ==
    \/ \E p \in Providers : SetAvailable(p)
    \/ \E params \in CallerParams : SearchEvents(params)
    \/ \E p \in Providers, reported \in SeqsUpTo(EventPool, MaxEventsPerProvider),
          hasMore \in BOOLEAN : ProviderFulfils(p, reported, hasMore)
    \/ \E p \in Providers : ProviderRejects(p)
    \/ Completes

Spec == Init /\ [][Next]_vars

\* a pending call of some provider settles
ProviderSettles ==
    \/ \E p \in Providers, reported \in SeqsUpTo(EventPool, MaxEventsPerProvider),
          hasMore \in BOOLEAN : ProviderFulfils(p, reported, hasMore)
    \/ \E p \in Providers : ProviderRejects(p)

\* searchEvents is resumed after its await: the step Completes, by what
\* enables it and the position it leads to
Resumes == pc = "awaiting" /\ allSettled /\ pc' = "fulfilled"

\* the search when no provider's promise stays pending for ever and the
\* continuation of an await whose promise has settled is run
SpecLive == Spec /\ WF_vars(ProviderSettles) /\ WF_pc(Resumes)

----------------------------------------------------------------------------
(* Vocabulary of the properties *)

Registered == Range(providers)
Called == Range(availableProviders)
Succeeded == { p \in Providers : outcome[p] = "fulfilled" }
Failed == { p \in Providers : outcome[p] \in {"rejected", "thrown"} }
NoneAvailable == \A p \in Registered : ~available[p]

\* what the providers answered, in registry order: the result of a provider
\* that fulfilled, and the empty result for one that failed
AnswersInRegistryOrder ==
    [i \in 1..Len(availableProviders) |->
        IF availableProviders[i] \in Succeeded
        THEN returned[availableProviders[i]]
        ELSE failedResult(availableProviders[i])]

\* the results of the providers that fulfilled alone, in registry order
SucceededResults ==
    LET ps == SelectSeq(availableProviders, LAMBDA p : p \in Succeeded)
    IN [i \in 1..Len(ps) |-> returned[ps[i]]]

ReturnedEvents == UNION { Range(returned[p].events) : p \in Succeeded }
KeysOf(events) == { generateDeduplicationKey(e) : e \in events }
providerOf(event) == CHOOSE p \in Providers : idPrefix(p) = event.id[1]

----------------------------------------------------------------------------
(* Properties *)

\* C1 (fault isolation): a search that reached some available provider never
\* rejects, whichever of its providers reject or throw, and the events it
\* fulfils with are the merge of the events of the providers that succeeded
\* alone, in parallel and in sequential mode.
FaultIsolation ==
    /\ Failed # {} => pc # "rejected"
    /\ (pc = "awaiting" /\ \A p \in Called : p \in Succeeded \cup Failed) => allSettled
    /\ pc = "fulfilled" =>
          result.events = aggregate(SucceededResults, config.enableDeduplication)

FaultIsolationWitness ==
    /\ pc = "fulfilled"
    /\ Cardinality(Failed) = 1
    /\ Cardinality({ p \in Succeeded : returned[p].events # <<>> }) = 2
    /\ Len(result.events) >= 2

\* C2 (fatal path): a search started while no registered provider is available
\* (or none is registered) rejects with the 'no providers available' error,
\* has no result and has called no provider.
FatalPath ==
    (pc # "idle" /\ NoneAvailable) =>
        /\ pc = "rejected"
        /\ error = "No event providers are available"
        /\ result = failedResult("")
        /\ calls = <<>>
        /\ \A p \in Providers : outcome[p] = "none"

FatalPathWitness ==
    /\ pc = "rejected"
    /\ Cardinality(Registered) = 3
    /\ NoneAvailable

\* C3: a search rejects if and only if no provider was available when it was
\* called; with a provider available it goes on to fulfil whatever the
\* providers' calls do.
RejectsOnlyWithoutProviders ==
    /\ pc # "idle" => (pc = "rejected" <=> NoneAvailable)
    /\ (pc = "awaiting" /\ \A p \in Providers : outcome[p] # "pending") => allSettled
    /\ pc = "fulfilled" => \A p \in Failed : \A e \in Range(result.events) : providerOf(e) # p

RejectsOnlyWithoutProvidersWitness ==
    /\ pc = "fulfilled"
    /\ Succeeded = {}
    /\ \E p, q \in Failed : outcome[p] = "rejected" /\ outcome[q] = "thrown"
    /\ result.events = <<>>

\* C4 (priority-stable first-wins): of the events with one deduplication key
\* that the providers returned, the merged result keeps one of a provider of
\* the highest priority among those that returned the key.
PriorityFirstWins ==
    (pc = "fulfilled" /\ config.enableDeduplication) =>
        \A e \in Range(result.events) : \A q \in Succeeded :
            generateDeduplicationKey(e) \in KeysOf(Range(returned[q].events))
                => priority(providerOf(e)) >= priority(q)

PriorityFirstWinsWitness ==
    /\ pc = "fulfilled"
    /\ config.enableDeduplication
    /\ \E e \in Range(result.events), d \in Range(returned["Yelp"].events) :
          /\ providerOf(e) = "Ticketmaster"
          /\ generateDeduplicationKey(e) = generateDeduplicationKey(d)
          /\ e.date # d.date

\* C5 (completion-order independence): in parallel mode the result is the
\* aggregate of the providers' answers taken in registry order, in whatever
\* order the calls settled.
CompletionOrderIndependence ==
    (pc = "fulfilled" /\ config.parallelRequests) =>
        result = aggregatedResult(AnswersInRegistryOrder, config)

CompletionOrderIndependenceWitness ==
    /\ pc = "fulfilled"
    /\ config.parallelRequests
    /\ config.enableDeduplication
    /\ outOfOrder
    /\ \E p, q \in Succeeded :
          /\ p # q
          /\ \E e \in Range(returned[p].events), d \in Range(returned[q].events) :
                /\ generateDeduplicationKey(e) = generateDeduplicationKey(d)
                /\ e.date # d.date

\* C6 (sort invariant): in a merged result, with or without deduplication, the
\* events with parseable dates are in ascending order of date.
SortInvariant ==
    pc = "fulfilled" =>
        \A i, j \in 1..Len(result.events) :
            (i < j /\ result.events[i].date.ok /\ result.events[j].date.ok)
                => result.events[i].date.t <= result.events[j].date.t

\* C7: the source of a merged result is the string "Aggregated".
SourceIsAggregated == pc = "fulfilled" => result.source = "Aggregated"

\* C8: with deduplication, the merged result has exactly one event for every
\* deduplication key among the providers' events.
OneEventPerKey ==
    (pc = "fulfilled" /\ config.enableDeduplication) =>
        /\ \A i, j \in 1..Len(result.events) :
              i # j => generateDeduplicationKey(result.events[i])
                         # generateDeduplicationKey(result.events[j])
        /\ KeysOf(Range(result.events)) = KeysOf(ReturnedEvents)
        /\ Range(result.events) \subseteq ReturnedEvents

OneEventPerKeyWitness ==
    /\ pc = "fulfilled"
    /\ config.enableDeduplication
    /\ Len(result.events) = 2
    /\ Cardinality(ReturnedEvents) = 3

\* C9: without deduplication, the merged result keeps every event of every
\* provider, duplicates included; their number is the sum of the lengths of
\* the providers' lists.
KeepsEveryEvent ==
    (pc = "fulfilled" /\ ~config.enableDeduplication) =>
        /\ Len(result.events) = TotalReturned
        /\ Range(result.events) = ReturnedEvents
        /\ result.totalCount = TotalReturned

KeepsEveryEventWitness ==
    /\ pc = "fulfilled"
    /\ ~config.enableDeduplication
    /\ Len(result.events) = 3
    /\ Cardinality(KeysOf(Range(result.events))) = 1

\* C10 (dedup idempotence): deduplicating the list deduplicateEvents returned
\* gives that list again, the same events in the same order.
DedupIdempotent ==
    pc = "deduplicated again" => result.events = results[1].events

DedupIdempotentWitness ==
    /\ pc = "deduplicated again"
    /\ Len(returned["Ticketmaster"].events) = 3
    /\ Len(result.events) = 2
    /\ result.events[1] # returned["Ticketmaster"].events[1]

----------------------------------------------------------------------------
(* Properties of getEventsByTimeframe, under SpecTimeframe *)

NamedTimeframes == {"today", "week", "month", "3months"}

FilterCalls == Range(filterCalls)

\* the instant n 24-hour periods after the clock shows c
daysAfter(c, n) == plusMs(c.zone, instantOf(c), n, 0)

DatesIn(events) == {events[i].date : i \in 1..Len(events)}

\* the time in milliseconds from the start of the local day of the call to the
\* date d of that day or of one of the 8 days after it: the lengths of the whole
\* days between, and the time of d within its day
RECURSIVE lengthOfDays(_, _, _)
lengthOfDays(zone, first, n) ==
    IF n = 0 THEN 0 ELSE dayLength(zone, first) + lengthOfDays(zone, first + 1, n - 1)

sinceTodayStart(call, d) ==
    lengthOfDays(call.at.zone, todayOf(call.at).day, d.day - todayOf(call.at).day) + d.ms

withinDays(call, d, n) ==
    d.ok /\ d.day >= todayOf(call.at).day /\ d.day <= todayOf(call.at).day + n

\* C11: filtering the output of getEventsByTimeframe again with the same
\* timeframe, on the same calendar day, returns that output unchanged.
FilterIdempotent ==
    (Len(filterCalls) = 2 /\ sameDay(filterCalls[1].at, filterCalls[2].at))
        => filterCalls[2].output = filterCalls[1].output

\* a week filter that dropped one of two events and kept the one dated at the
\* instant of the call, applied again later on the same day
FilterIdempotentWitness ==
    /\ Len(filterCalls) = 2
    /\ sameDay(filterCalls[1].at, filterCalls[2].at)
    /\ filterCalls[1].at # filterCalls[2].at
    /\ filterCalls[1].timeframe = "week"
    /\ Len(filterCalls[1].events) = 2
    /\ Len(filterCalls[1].output) = 1
    /\ filterCalls[1].output[1].date = instantOf(filterCalls[1].at)
    /\ filterCalls[2].output = filterCalls[1].output

\* C12: for a timeframe other than the four named ones, the empty string
\* included, getEventsByTimeframe returns its input list, every event in its
\* input order, and no error arises.
UnknownTimeframePassthrough ==
    \A call \in FilterCalls :
        call.timeframe \notin NamedTimeframes
            => (call.output = call.events /\ error = "" /\ pc = "fulfilled")

\* the empty timeframe on two events, one with an unparseable date and one of
\* yesterday, which every named timeframe would drop
UnknownTimeframePassthroughWitness ==
    \E call \in FilterCalls :
        /\ call.timeframe = ""
        /\ Len(call.events) = 2
        /\ \E i, j \in 1..2 : /\ ~call.events[i].date.ok
                              /\ call.events[j].date.ok
                              /\ call.events[j].date.day < todayOf(call.at).day
        /\ call.output = call.events

\* C16: under a named timeframe no returned event is dated before the start
\* of the current local calendar day.
NeverBeforeToday ==
    \A call \in FilterCalls :
        call.timeframe \in NamedTimeframes
            => \A d \in DatesIn(call.output) : d.ok /\ d.day >= todayOf(call.at).day

\* a month filter given an event of yesterday's last millisecond and an event
\* of the current instant, which drops the first and keeps the second
NeverBeforeTodayWitness ==
    \E call \in FilterCalls :
        /\ call.timeframe = "month"
        /\ Len(call.events) = 2
        /\ call.events[1].date = plusMs(call.at.zone, todayOf(call.at), 0, -1)
        /\ call.output = <<call.events[2]>>

\* C17: the week filter keeps the events dated at the current instant, 24
\* hours after it and exactly 7 x 24 hours after it, and drops the event
\* dated 30 x 24 hours after it.
WeekAsTested ==
    \A call \in FilterCalls :
        call.timeframe = "week"
            => /\ \A n \in {0, 1, 7} :
                    daysAfter(call.at, n) \in DatesIn(call.events)
                        => daysAfter(call.at, n) \in DatesIn(call.output)
               /\ daysAfter(call.at, 30) \notin DatesIn(call.output)

\* C18: the month filter keeps the events dated at the current instant and
\* 24 hours, 7 x 24 hours and exactly 30 x 24 hours after it.
MonthAsTested ==
    \A call \in FilterCalls :
        call.timeframe = "month"
            => \A n \in {0, 1, 7, 30} :
                    daysAfter(call.at, n) \in DatesIn(call.events)
                        => daysAfter(call.at, n) \in DatesIn(call.output)

\* C19: the today filter returns exactly the events dated from the start of
\* the current local day up to, and not including, the instant 24 hours
\* after that start.
TodayHalfOpen ==
    \A call \in FilterCalls :
        call.timeframe = "today"
            => call.output = SelectSeq(call.events,
                   LAMBDA e : /\ withinDays(call, e.date, 1)
                              /\ sinceTodayStart(call, e.date) < MsPerDay)

\* a today filter called at midnight with an event of that instant and an
\* event 24 hours later, the start of the next day: only the first is kept
TodayHalfOpenWitness ==
    \E call \in FilterCalls :
        /\ call.timeframe = "today"
        /\ call.at.ms = 0
        /\ Len(call.events) = 2
        /\ call.events[1].date = instantOf(call.at)
        /\ call.events[2].date = plusMs(call.at.zone, todayOf(call.at), 1, 0)
        /\ call.output = <<call.events[1]>>

----------------------------------------------------------------------------
(* Properties of searchEvents: limits, completion, hasMore *)

EventsFrom(p, events) == { i \in 1..Len(events) : providerOf(events[i]) = p }

\* C13: the merged result holds at most maxResultsPerProvider events of any
\* one provider, whatever number of events the provider returned.
MaxResultsRespected ==
    pc = "fulfilled"
        => \A p \in Providers :
               Cardinality(EventsFrom(p, result.events)) <= config.maxResultsPerProvider

\* C14: a search that has called its available providers, all of whose calls
\* settle, completes with a result, in parallel and in sequential mode.
SearchCompletes == (pc = "awaiting") ~> (pc = "fulfilled")

\* a sequential search over three providers that completed although one call
\* rejected and one threw
SearchCompletesWitness ==
    /\ pc = "fulfilled"
    /\ ~config.parallelRequests
    /\ Len(availableProviders) = 3
    /\ \E p, q \in Called : outcome[p] = "rejected" /\ outcome[q] = "thrown"
    /\ Succeeded # {}

\* C15: hasMore of the result is true exactly when the call of some provider
\* fulfilled with hasMore true; failed calls count as false, and neither
\* deduplication nor the number of events left has a say.
HasMoreIffSomeProviderHasMore ==
    pc = "fulfilled" => (result.hasMore <=> \E p \in Succeeded : returned[p].hasMore)

\* with deduplication on: one provider failed, one fulfilled without more, and
\* the only one that fulfilled with hasMore true has no event in the result
HasMoreIffSomeProviderHasMoreWitness ==
    /\ pc = "fulfilled"
    /\ config.enableDeduplication
    /\ result.hasMore
    /\ Failed # {}
    /\ \E p, q \in Succeeded :
        /\ returned[p].hasMore
        /\ returned[p].events # <<>>
        /\ EventsFrom(p, result.events) = {}
        /\ ~returned[q].hasMore
        /\ \A o \in Succeeded \ {p} : ~returned[o].hasMore

----------------------------------------------------------------------------
(* Properties of getAvailableProviders, under SpecProviders *)

\* C20: getAvailableProviders returns the names of exactly the registered
\* providers available at the time of the call, by descending priority,
\* whatever the order the constructor was given them in.
ListsAvailableByPriority ==
    \A call \in Range(listed) :
        /\ Range(call.names) = { p \in Registered : call.available[p] }
        /\ \A i, j \in 1..Len(call.names) :
               i < j => priority(call.names[i]) > priority(call.names[j])

\* three registered providers of which the one of middle priority has become
\* unavailable: the other two are listed, the higher priority first
ListsAvailableByPriorityWitness ==
    /\ Cardinality(Registered) = 3
    /\ \E call \in Range(listed) :
        /\ ~call.available["Eventbrite"]
        /\ call.names = <<"Ticketmaster", "Yelp">>

----------------------------------------------------------------------------
(* Properties of searchEvents: the calls it makes and when it returns *)

CalledProviders == { calls[i].provider : i \in 1..Len(calls) }
Pending == { p \in Providers : outcome[p] = "pending" }

\* C21: in sequential mode the providers are called one at a time in registry
\* order, the next one only when the call before it has settled, and a
\* failed call does not keep the later providers from being called.
SequentialOrdering ==
    (~config.parallelRequests /\ pc \in {"awaiting", "fulfilled"}) =>
        /\ Len(calls) <= Len(availableProviders)
        /\ \A i \in 1..Len(calls) : calls[i].provider = availableProviders[i]
        /\ \A i \in 1..(Len(calls) - 1) : outcome[calls[i].provider] # "pending"
        /\ Pending = {} => Len(calls) = Len(availableProviders)

\* the first of three providers has rejected, the second has been called and
\* is pending, the third has not been called yet
SequentialOrderingWitness ==
    /\ ~config.parallelRequests
    /\ pc = "awaiting"
    /\ Len(availableProviders) = 3
    /\ Len(calls) = 2
    /\ outcome[availableProviders[1]] = "rejected"
    /\ outcome[availableProviders[2]] = "pending"
    /\ outcome[availableProviders[3]] = "none"

\* C22: a search calls every provider available when it began exactly once,
\* calls no other provider, and hands every one the caller's params with
\* size set to maxResultsPerProvider.
FanOutCallSet ==
    pc \in {"awaiting", "fulfilled"} =>
        /\ \A i \in 1..Len(calls) :
              /\ calls[i].provider \in Registered
              /\ available[calls[i].provider]
              /\ calls[i].params = [radius |-> 25, size |-> config.maxResultsPerProvider]
        /\ \A i, j \in 1..Len(calls) : calls[i].provider = calls[j].provider => i = j
        /\ (config.parallelRequests \/ pc = "fulfilled")
              => CalledProviders = { p \in Registered : available[p] }

\* a completed search of an aggregator with three providers, of which one
\* was unavailable, and a limit of 1 where the facade asks for 100
FanOutCallSetWitness ==
    /\ pc = "fulfilled"
    /\ Cardinality(Registered) = 3
    /\ Cardinality(CalledProviders) = 2
    /\ config.maxResultsPerProvider = 1
    /\ \A i \in 1..Len(calls) : calls[i].params.size = 1

\* C23: unparseable dates do not make the search fail, and in the merged
\* result the events with parseable dates come first, in ascending order of
\* date, and the events with unparseable dates after them.
UnparseableDatesLast ==
    /\ pc = "rejected" => ReturnedEvents = {}
    /\ pc = "fulfilled" =>
          \A i, j \in 1..Len(result.events) :
              i < j => LET a == getTime(result.events[i].date)
                           b == getTime(result.events[j].date)
                       IN /\ a.nan => b.nan
                          /\ (~a.nan /\ ~b.nan) => a.v <= b.v

\* C26: while the call of a provider is pending the search is pending: it
\* neither returns nor gives up, whatever the other calls have done.
NoEarlyCompletion == Pending # {} => pc = "awaiting"

\* a parallel search of three providers, one fulfilled with events, one
\* rejected, the third still pending
NoEarlyCompletionWitness ==
    /\ pc = "awaiting"
    /\ config.parallelRequests
    /\ Cardinality(Pending) = 1
    /\ \E p, q \in Called : /\ outcome[p] = "fulfilled"
                            /\ returned[p].events # <<>>
                            /\ outcome[q] = "rejected"

\* C28: the result is the aggregate of the providers' answers taken in
\* registry order, a function of the registry and of what every provider
\* answered in which the mode has no part: a parallel and a sequential search
\* with the same registry and the same answers return the same result.
ModeEquivalence ==
    pc = "fulfilled" =>
        \A parallelRequests \in BOOLEAN :
            result = aggregatedResult(AnswersInRegistryOrder,
                         [config EXCEPT !.parallelRequests = parallelRequests])

\* a sequential search without deduplication in which one call failed and
\* two providers returned events, one of them with hasMore true
ModeEquivalenceWitness ==
    /\ pc = "fulfilled"
    /\ ~config.parallelRequests
    /\ ~config.enableDeduplication
    /\ Failed # {}
    /\ Cardinality({ p \in Succeeded : returned[p].events # <<>> }) = 2
    /\ result.hasMore

----------------------------------------------------------------------------
(* Properties of getEventsByTimeframe: the bounds of the week, the nesting *)

\* C25: the week filter returns exactly the events dated from the start of
\* the current local day to the instant 7 days, of 24 hours each, after that
\* start, both included.
WeekBounds ==
    \A call \in FilterCalls :
        call.timeframe = "week"
            => call.output = SelectSeq(call.events,
                   LAMBDA e : /\ withinDays(call, e.date, 8)
                              /\ sinceTodayStart(call, e.date) <= 7 * MsPerDay)

\* a week filter called after midnight with an event of the midnight 7 days
\* after today's and an event of the millisecond after that: only the first
\* is kept
WeekBoundsWitness ==
    \E call \in FilterCalls :
        /\ call.timeframe = "week"
        /\ call.at.ms > 0
        /\ Len(call.events) = 2
        /\ call.events[1].date = plusMs(call.at.zone, todayOf(call.at), 7, 0)
        /\ call.events[2].date = plusMs(call.at.zone, todayOf(call.at), 7, 1)
        /\ call.output = <<call.events[1]>>

\* the timeframes whose events a timeframe has to keep
Narrower(timeframe) ==
    CASE timeframe = "week"    -> {"today"}
      [] timeframe = "month"   -> {"today", "week"}
      [] timeframe = "3months" -> {"today", "week", "month"}
      [] OTHER -> {}

\* C29: what a narrower timeframe keeps of a list a wider one keeps too
\* (today, week, month, 3months, in this order); the output is a part of
\* the input list in the input's order, and the input list is left as it was.
TimeframeNesting ==
    /\ \A call \in FilterCalls :
          /\ \A narrower \in Narrower(call.timeframe) :
                \A e \in Range(call.events) :
                    keeps(e.date, call.at, narrower) => e \in Range(call.output)
          /\ call.output = SelectSeq(call.events, LAMBDA e : e \in Range(call.output))
    /\ filterCalls # <<>> => filterCalls[1].events = result.events

\* a 3months filter that dropped one of two events and kept one that the
\* month filter keeps and the week filter drops
TimeframeNestingWitness ==
    \E call \in FilterCalls :
        /\ call.timeframe = "3months"
        /\ Len(call.events) = 2
        /\ Len(call.output) = 1
        /\ keeps(call.output[1].date, call.at, "month")
        /\ ~keeps(call.output[1].date, call.at, "week")

----------------------------------------------------------------------------
(* Properties of the deduplication key, under SpecKeys *)

sameText(a, b) == trim(toLowerCase(a)) = trim(toLowerCase(b))
sameCalendarDay(a, b) == a.ok /\ b.ok /\ (a.t \div MsPerDay) = (b.t \div MsPerDay)

\* the two events given, and whether the second was dropped as a duplicate
Given == returned["Ticketmaster"].events
TreatedAsDuplicates == Len(results[1].events) = 1

\* C24: two events are duplicates exactly when their titles are equal after
\* trimming and lowercasing, their venues likewise, and their dates fall on
\* the same calendar day; the id and the time of day have no part in it.
DuplicatesIffSameDay ==
    pc = "deduplicated" =>
        (TreatedAsDuplicates <=>
            /\ sameText(Given[1].title, Given[2].title)
            /\ sameText(Given[1].venue, Given[2].venue)
            /\ sameCalendarDay(Given[1].date, Given[2].date))

\* C24 as amended: ... and their dates fall on the same calendar day or are
\* both unparseable.
DuplicatesIffSameDayOrBothUnparseable ==
    pc = "deduplicated" =>
        (TreatedAsDuplicates <=>
            /\ sameText(Given[1].title, Given[2].title)
            /\ sameText(Given[1].venue, Given[2].venue)
            /\ \/ sameCalendarDay(Given[1].date, Given[2].date)
               \/ (~Given[1].date.ok /\ ~Given[2].date.ok))

\* two events whose titles and venues differ in letter case and blanks and
\* whose dates are an hour apart on one day: the second was dropped
DuplicatesIffSameDayOrBothUnparseableWitness ==
    /\ pc = "deduplicated"
    /\ Given[1].title # Given[2].title
    /\ Given[1].venue # Given[2].venue
    /\ Given[1].date.ok /\ Given[2].date.ok /\ Given[1].date # Given[2].date
    /\ Given[1].id # Given[2].id
    /\ results[1].events = <<Given[1]>>

----------------------------------------------------------------------------
(* Properties of overlapping searches, under SpecConcurrent *)

\* what the providers answered to the call with locals s, in registry order
answersTo(s) ==
    [i \in 1..Len(s.availableProviders) |->
        IF s.outcome[s.availableProviders[i]] = "fulfilled"
        THEN s.returned[s.availableProviders[i]]
        ELSE failedResult(s.availableProviders[i])]

\* the call with locals s has returned what it returns when it runs alone
asIfAlone(s) ==
    /\ s.pc = "fulfilled" => s.result = aggregatedResult(answersTo(s), config)
    /\ s.pc # "idle" =>
          /\ s.availableProviders = providers
          /\ \A i \in 1..Len(s.calls) : s.calls[i].provider = s.availableProviders[i]

\* C27: no step of a search changes the registry or the configuration, and
\* of two searches that overlap each returns the result it returns alone:
\* the aggregate of the answers its own calls got, in registry order.
SearchesDoNotInterfere ==
    /\ [][providers' = providers /\ config' = config]_vars
    /\ [](asIfAlone(thisSearch) /\ asIfAlone(other))

\* two sequential searches that overlapped have both returned, with
\* different events
SearchesDoNotInterfereWitness ==
    /\ pc = "fulfilled"
    /\ other.pc = "fulfilled"
    /\ ~config.parallelRequests
    /\ result.events # <<>>
    /\ other.result.events # <<>>
    /\ result.events # other.result.events
    /\ outOfOrder = FALSE

----------------------------------------------------------------------------
(* Properties of OAuthManager.handleCallback, under SpecOAuth *)

\* the state string decodes to a state object at most ten minutes old at time now
freshStateObject(state, now) ==
    /\ state.base64
    /\ state.text.parses
    /\ state.text.value.isObject
    /\ ~state.text.value.timestamp.nan
    /\ now - state.text.value.timestamp.v <= StateMaxAgeMs

\* the conditions under which the call is to store a token
accepted(call) ==
    /\ call.registered
    /\ freshStateObject(call.state, call.at)
    /\ call.state.text.value.provider = call.providerName
    /\ call.exchange = "token"

Settled == { i \in DOMAIN oauth.callbacks : oauth.callbacks[i].pc = "settled" }

\* a token is stored only by an accepted call; every other call answers
\* success: false and leaves the stored tokens as they were
StoresOnlyWhenAccepted ==
    \A i \in Settled :
        LET call == oauth.callbacks[i] IN
        /\ call.stored => accepted(call)
        /\ ~accepted(call) => ~call.response.success /\ ~call.changed

\* the call completes a flow that getAuthUrl began for the same registered
\* provider, whatever the letter case of the two names: the state is one
\* getAuthUrl issued, fresh when the call is made, and the code one the
\* endpoint grants, which it has not failed to reach
completesFlow(call) ==
    /\ call.registered
    /\ call.state \in oauth.issued
    /\ toLowerCase(call.state.text.value.provider) = toLowerCase(call.providerName)
    /\ freshStateObject(call.state, call.at)
    /\ call.code = "granted"
    /\ call.exchange # "failed"

FlowCompletes ==
    \A i \in Settled :
        completesFlow(oauth.callbacks[i]) => oauth.callbacks[i].response.success

\* C30: handleCallback stores a token only if the provider is registered, the
\* state decodes to a state object at most ten minutes old whose provider
\* equals providerName, and the code exchange succeeds; every other call
\* answers success: false and leaves the stored tokens unchanged.  A flow
\* begun with getAuthUrl(name) completes successfully for the same registered
\* provider whatever the letter case of the name used at each step.
CallbackContract == StoresOnlyWhenAccepted /\ FlowCompletes

====
